---------------------------- MODULE Spec2Model ----------------------------
(***************************************************************************)
(* A model of the rubot chat bot:                                          *)
(*   - the slash-command dispatcher (src/src/events/InteractionEvent.ts),  *)
(*   - the AdvancedCollector waiting utilities (src/unnamed/part_001).     *)
(*                                                                         *)
(* Three specifications share the module: SpecDispatch drives the          *)
(* dispatcher, SpecCollector drives one wait operation of the collector    *)
(* utility, SpecRows applies getActionRowsFromComponents to one list of    *)
(* components.  Each leaves the others' variables untouched.               *)
(***************************************************************************)
EXTENDS Integers, Sequences, FiniteSets, Bags, TLC

(***************************************************************************)
(* Bounds of the model (not program constants).                            *)
(***************************************************************************)
\* the dispatcher's clock runs from 1 to MaxTime (one unit = 1000 ms)
MaxTime == 5
\* number of slash-command handlers that may be suspended at an await at once
MaxInFlight == 2
\* number of messages of the target author a wait operation may collect
MaxMsgs == 2
\* largest numbers of select menus and of buttons handed to the row packing
MaxSelects == 6
MaxButtons == 26
\* longest string handed to parseCourseSubjCode
MaxCodeLen == 5

VARIABLES
    \* ---- dispatcher ----
    isProd,       \* Bot.BotInstance.config.isProd
    now,          \* Date.now(), in seconds
    onCooldown,   \* per command: user id -> next-eligible timestamp (0: no entry)
    handlers,     \* bag of the slashCommandHandler calls suspended at an await
    last,         \* what the most recent dispatcher step did (observation)
    \* ---- collector ----
    mode,         \* which wait operation runs
    options,      \* the options object of the call
    pc,           \* position of the operation
    botMsg,       \* result of initSendCollectorMessage
    msgCollector, \* state of the MessageCollector
    interactionCollector, \* state of the component collector / awaitMessageComponent
    hasCalled,    \* the one-shot flag of acknowledgeDeletion
    result,       \* settlement of the returned promise
    resolvedBy,   \* which code path settled the promise (observation)
    msgs,         \* collected messages, in arrival order, with their handler state
    inter,        \* the collected component interaction and its handler state
    botDeleteCalls, \* number of botMsg.delete() calls
    botEditCalls,   \* number of botMsg.edit(...) calls
    botDeletable, \* botMsg.deletable, as the operation reads it (at most once)
    botEditable,  \* botMsg.editable, as the operation reads it (at most once)
    \* ---- getActionRowsFromComponents ----
    components,   \* the argument `options`: the list of components
    rows,         \* the returned list of rows
    rowsPc,       \* "init" before the call, "done" after it returned
    \* ---- Help.run ----
    helpArg,      \* ctx.interaction.options.getString("command")
    canRunOf,     \* per command: what hasPermissionToRun returns for the user
    helpReply,    \* the reply Help.run sends
    helpPc,       \* "init" before the call, "done" after it returned
    \* ---- parseCourseSubjCode ----
    code,         \* the argument `code`
    parsedCode,   \* the returned string
    parsePc       \* "init" before the call, "done" after it returned, "again" after the result was parsed again

dispatchVars == <<isProd, now, onCooldown, handlers, last>>
collectorVars == <<mode, options, pc, botMsg, msgCollector, interactionCollector,
                   hasCalled, result, resolvedBy, msgs, inter,
                   botDeleteCalls, botEditCalls>>
botVars == <<botDeletable, botEditable>>
rowsVars == <<components, rows, rowsPc>>
helpVars == <<helpArg, canRunOf, helpReply, helpPc>>
parseVars == <<code, parsedCode, parsePc>>
helperVars == <<rowsVars, helpVars, parseVars>>
vars == <<dispatchVars, collectorVars, botVars, helperVars>>


(***************************************************************************)
(*                              DISPATCHER                                 *)
(***************************************************************************)
Users == {"owner", "alice"}

\* Bot.BotInstance.config.botOwnerIds
BotOwnerIds == {"owner"}

\* ICommandInfo of the Help command (cooldown in seconds: 4 * 1000 ms)
HelpInfo == [botCommandName |-> "help", commandCooldown |-> 4, guildOnly |-> FALSE]

\* A command descriptor whose guild-only flag is set (the descriptor's
\* guildOnly field; no command under src sets it).
GuildOnlyInfo ==
    [botCommandName |-> "guildcmd", commandCooldown |-> 2, guildOnly |-> TRUE]

\* Bot.NameCommands: command name -> command
NameCommands ==
    [n \in {HelpInfo.botCommandName, GuildOnlyInfo.botCommandName} |->
        IF n = HelpInfo.botCommandName THEN HelpInfo ELSE GuildOnlyInfo]

\* names an interaction may carry: the registered ones and an unknown one
CommandNames == DOMAIN NameCommands \cup {"nosuchcmd"}

NoEntry == 0

\* BaseCommand.checkCooldownFor: the remaining cooldown of the user, -1 when
\* the user has no entry.
CheckCooldownFor(cmd, user) ==
    IF onCooldown[cmd][user] = NoEntry THEN -1 ELSE onCooldown[cmd][user] - now

\* BaseCommand.addToCooldown: the user's next-eligible timestamp.
AddToCooldown(cmd, user) ==
    [onCooldown EXCEPT ![cmd][user] = now + NameCommands[cmd].commandCooldown]

\* The values BaseCommand.hasPermissionToRun may return.
CanRunInfos ==
    { [canRun |-> TRUE, hasAdmin |-> a, missingUserPerms |-> <<>>,
       missingBotPerms |-> <<>>, reason |-> ""] : a \in BOOLEAN }
    \cup
    { [canRun |-> FALSE, hasAdmin |-> a, missingUserPerms |-> mu,
       missingBotPerms |-> mb, reason |-> r] :
         a \in BOOLEAN,
         mu \in {<<>>, <<"MANAGE_GUILD">>},
         mb \in {<<>>, <<"EMBED_LINKS">>},
         r \in {"", "custom reason"} }

\* the suspended calls: position, and the ctx fields the rest of the call reads
Handler(at, user, cmd, hasGuild) ==
    [pc |-> at, user |-> user, cmd |-> cmd, hasGuild |-> hasGuild]

\* the bag `bag` without one copy of h / with one more copy of h
WithoutNoReturn(bag, h) == bag
Without(bag, h) == bag (-) SetToBag({h})
With(bag, h) == bag (+) SetToBag({h})

\* the value of canRunInfo while hasPermissionToRun has not been called
NoCanRunInfo ==
    [canRun |-> FALSE, hasAdmin |-> FALSE, missingUserPerms |-> <<>>,
     missingBotPerms |-> <<>>, reason |-> ""]

\* What one step of the handler did: the reply it sent, whether it called
\* checkCooldownFor (readCooldown) and hasPermissionToRun (permChecked, with
\* the result in info), whether it called run (ranBody), and the fields of
\* the diagnostic embed.
NoStep ==
    [step |-> "none", user |-> "", cmd |-> "", outcome |-> "none",
     reply |-> "none", ephemeral |-> FALSE, readCooldown |-> FALSE,
     permChecked |-> FALSE, info |-> NoCanRunInfo,
     ranBody |-> FALSE, fields |-> <<>>]

\* if (!config.isProd && !config.botOwnerIds.includes(interaction.user.id))
DevModeBlockedNoOwners(user) == ~isProd
DevModeBlockedOwners(user) == ~isProd /\ user \in BotOwnerIds
DevModeBlocked(user) == ~isProd /\ user \notin BotOwnerIds

\* if (cooldownLeft > 0)
OnCooldownMut(cooldownLeft) == cooldownLeft > 1
OnCooldown(cooldownLeft) == cooldownLeft > 0

\* if (foundCommand.commandInfo.guildOnly && !ctx.guild)
GuildOnlyBlockedInGuild(cmd, hasGuild) == NameCommands[cmd].guildOnly /\ hasGuild
GuildOnlyBlocked(cmd, hasGuild) == NameCommands[cmd].guildOnly /\ ~hasGuild

\* if (!botOwnerIds.includes(ctx.user.id) && !canRunInfo.hasAdmin)
ShouldAddToCooldownIfRun(user, info) ==
    user \notin BotOwnerIds /\ ~info.hasAdmin /\ info.canRun
ShouldAddToCooldown(user, info) == user \notin BotOwnerIds /\ ~info.hasAdmin

\* The fields of noPermissionEmbed, in the order they are added.
NoPermissionFieldsMut(info) ==
    LET userF == IF Len(info.missingUserPerms) # 0
                 THEN << "Missing Member Permissions (Need ??? 1)",
                         "Missing Member Permissions (Need ??? 1)" >>
                 ELSE <<>>
        botF  == IF Len(info.missingBotPerms) # 0
                 THEN << "Missing Bot Permissions (Need All)" >>
                 ELSE <<>>
        both  == userF \o botF
    IN IF Len(userF) = 0 THEN both \o << "Unknown Error" >> ELSE both
NoPermissionFields(info) ==
    LET userF == IF Len(info.missingUserPerms) # 0
                 THEN << "Missing Member Permissions (Need ??? 1)",
                         "Missing Member Permissions (Need ??? 1)" >>
                 ELSE <<>>
        botF  == IF Len(info.missingBotPerms) # 0
                 THEN << "Missing Bot Permissions (Need All)" >>
                 ELSE <<>>
        both  == userF \o botF
    IN IF Len(both) = 0 THEN << "Unknown Error" >> ELSE both

\* slashCommandHandler up to its first suspension (await members.fetch):
\* the development-mode gate and the command lookup.
Receive(user, name, hasGuild) ==
    /\ BagCardinality(handlers) < MaxInFlight
    /\ IF DevModeBlocked(user)
       THEN /\ last' = [NoStep EXCEPT !.step = "receive",
                           !.user = user, !.cmd = name, !.outcome = "dev",
                           !.reply = "dev"]
            /\ UNCHANGED handlers
       ELSE IF name \notin DOMAIN NameCommands
       THEN /\ last' = [NoStep EXCEPT !.step = "receive",
                           !.user = user, !.cmd = name, !.outcome = "ignored"]
            /\ UNCHANGED handlers
       ELSE /\ handlers' = With(handlers, Handler("fetch", user, name, hasGuild))
            /\ last' = [NoStep EXCEPT !.step = "receive",
                           !.user = user, !.cmd = name, !.outcome = "fetch"]
    /\ UNCHANGED <<isProd, now, onCooldown>>
    /\ UNCHANGED collectorVars
    /\ UNCHANGED helperVars
    /\ UNCHANGED botVars

\* slashCommandHandler from the resumption after members.fetch to the next
\* suspension: cooldown gate, guild-only gate, permission check, cooldown
\* write, and either the start of the command body or a rejection reply.
Gate(h) ==
    LET cooldownLeft == CheckCooldownFor(h.cmd, h.user)
        base == [NoStep EXCEPT !.step = "gate", !.user = h.user, !.cmd = h.cmd,
                               !.readCooldown = TRUE]
    IN
    /\ BagIn(h, handlers) /\ h.pc = "fetch"
    /\ IF OnCooldown(cooldownLeft)
       THEN /\ last' = [base EXCEPT !.outcome = "cooldown", !.reply = "cooldown",
                                    !.ephemeral = TRUE]
            /\ handlers' = Without(handlers, h)
            /\ UNCHANGED onCooldown
       ELSE IF GuildOnlyBlocked(h.cmd, h.hasGuild)
       THEN /\ last' = [base EXCEPT !.outcome = "guild", !.reply = "guild",
                                    !.ephemeral = TRUE]
            /\ handlers' = Without(handlers, h)
            /\ UNCHANGED onCooldown
       ELSE \E canRunInfo \in CanRunInfos :
            /\ onCooldown' = IF ShouldAddToCooldown(h.user, canRunInfo)
                             THEN AddToCooldown(h.cmd, h.user)
                             ELSE onCooldown
            /\ IF canRunInfo.canRun
               THEN /\ handlers' = With(Without(handlers, h),
                                        Handler("running", h.user, h.cmd, h.hasGuild))
                    /\ last' = [base EXCEPT !.outcome = "run",
                                            !.permChecked = TRUE,
                                            !.info = canRunInfo,
                                            !.ranBody = TRUE]
               ELSE IF canRunInfo.reason # ""
               THEN /\ handlers' = Without(handlers, h)
                    /\ last' = [base EXCEPT !.outcome = "reason",
                                            !.reply = canRunInfo.reason,
                                            !.ephemeral = TRUE,
                                            !.permChecked = TRUE,
                                            !.info = canRunInfo]
               ELSE /\ handlers' = Without(handlers, h)
                    /\ last' = [base EXCEPT !.outcome = "diagnostic",
                                            !.reply = "diagnostic",
                                            !.permChecked = TRUE,
                                            !.info = canRunInfo,
                                            !.fields = NoPermissionFields(canRunInfo)]
    /\ UNCHANGED <<isProd, now>>
    /\ UNCHANGED collectorVars
    /\ UNCHANGED helperVars
    /\ UNCHANGED botVars

\* await foundCommand.run(ctx) completes; the handler returns.
RunDone(h) ==
    /\ BagIn(h, handlers) /\ h.pc = "running"
    /\ last' = [NoStep EXCEPT !.step = "runDone", !.user = h.user, !.cmd = h.cmd,
                   !.outcome = "returned"]
    /\ handlers' = Without(handlers, h)
    /\ UNCHANGED <<isProd, now, onCooldown>>
    /\ UNCHANGED collectorVars
    /\ UNCHANGED helperVars
    /\ UNCHANGED botVars

\* Date.now() advances.
Tick ==
    /\ now < MaxTime
    /\ now' = now + 1
    /\ last' = [NoStep EXCEPT !.step = "tick"]
    /\ UNCHANGED <<isProd, onCooldown, handlers>>
    /\ UNCHANGED collectorVars
    /\ UNCHANGED helperVars
    /\ UNCHANGED botVars


(***************************************************************************)
(* Specification of the dispatcher.                                        *)
(***************************************************************************)
\* getActionRowsFromComponents is not called
RowsIdle ==
    /\ components = <<>>
    /\ rows = <<>>
    /\ rowsPc = "idle"

\* Help.run is not called
HelpIdle ==
    /\ helpArg = "NULL"
    /\ canRunOf = <<>>
    /\ helpReply = [kind |-> "none", list |-> <<>>]
    /\ helpPc = "idle"

\* parseCourseSubjCode is not called
ParseIdle ==
    /\ code = <<>>
    /\ parsedCode = <<>>
    /\ parsePc = "idle"

HelperIdle == RowsIdle /\ HelpIdle /\ ParseIdle

CollectorIdle ==
    /\ mode = "none"
    /\ options = [deleteBaseMsgAfterComplete |-> FALSE,
                  clearInteractionsAfterComplete |-> FALSE,
                  acknowledgeImmediately |-> FALSE,
                  deleteResponseMessage |-> FALSE,
                  cancelFlag |-> "NULL"]
    /\ pc = "idle"
    /\ botMsg = "NULL"
    /\ msgCollector = "none"
    /\ interactionCollector = "none"
    /\ hasCalled = FALSE
    /\ result = "PENDING"
    /\ resolvedBy = "none"
    /\ msgs = <<>>
    /\ inter = [state |-> "none", late |-> FALSE, before |-> 0]
    /\ botDeleteCalls = 0
    /\ botEditCalls = 0
    /\ botDeletable = FALSE
    /\ botEditable = FALSE

InitDispatch ==
    /\ isProd \in BOOLEAN
    /\ now = 1
    /\ onCooldown = [c \in DOMAIN NameCommands |-> [u \in Users |-> NoEntry]]
    /\ handlers = EmptyBag
    /\ last = NoStep
    /\ CollectorIdle
    /\ HelperIdle

NextDispatch ==
    \/ \E user \in Users, name \in CommandNames, hasGuild \in BOOLEAN :
           Receive(user, name, hasGuild)
    \/ \E h \in BagToSet(handlers) : Gate(h)
    \/ \E h \in BagToSet(handlers) : RunDone(h)
    \/ Tick

SpecDispatch == InitDispatch /\ [][NextDispatch]_vars


(***************************************************************************)
(*                     CLAIMS ABOUT THE DISPATCHER                         *)
(***************************************************************************)
\* C1: whenever the handler reaches the cooldown gate for user U and command
\* C while checkCooldownFor(U) on C is positive, that step replies with the
\* cooldown notice (ephemerally), does not evaluate the permission check,
\* does not start the command body, returns, and leaves every cooldown
\* record unchanged.
C1_CooldownGateStops ==
    [][ \A h \in BagToSet(handlers) :
          (/\ h.pc = "fetch"
           /\ CopiesIn(h, handlers') < CopiesIn(h, handlers)
           /\ CheckCooldownFor(h.cmd, h.user) > 0)
          => /\ last'.step = "gate"
             /\ last'.user = h.user
             /\ last'.cmd = h.cmd
             /\ last'.outcome = "cooldown"
             /\ last'.reply = "cooldown"
             /\ last'.ephemeral
             /\ ~last'.permChecked
             /\ ~last'.ranBody
             /\ handlers' = Without(handlers, h)
             /\ onCooldown' = onCooldown ]_vars

\* C1 witness: a non-operator was answered with the cooldown notice while
\* holding a cooldown entry with exactly one second left.
C1_Witness ==
    /\ last.step = "gate"
    /\ last.outcome = "cooldown"
    /\ last.user = "alice"
    /\ CheckCooldownFor(last.cmd, last.user) = 1

\* the handler h leaves its position in this step
Leaves(h, at) ==
    /\ h.pc = at
    /\ CopiesIn(h, handlers') < CopiesIn(h, handlers)

\* the cooldown record after addToCooldown of the user on the command
Refreshed(cmd, user) ==
    [onCooldown EXCEPT ![cmd][user] = now + NameCommands[cmd].commandCooldown]

\* C11: a handler that passes the cooldown gate and the guild-only gate
\* (the development-mode gate and the lookup were passed when it was
\* suspended) evaluates the permission check and starts or refreshes the
\* user's cooldown for the command if and only if the user is not in
\* botOwnerIds and the permission check does not report hasAdmin, whatever
\* canRun is; the write belongs to the step that calls run, and the
\* completion of the body writes no cooldown record.
C11_CooldownWritePolicy ==
    [][ \A h \in BagToSet(handlers) :
          /\ (/\ Leaves(h, "fetch")
              /\ ~(CheckCooldownFor(h.cmd, h.user) > 0)
              /\ ~(NameCommands[h.cmd].guildOnly /\ ~h.hasGuild))
             => /\ last'.step = "gate"
                /\ last'.permChecked
                /\ last'.ranBody = last'.info.canRun
                /\ onCooldown' =
                     IF h.user \notin BotOwnerIds /\ ~last'.info.hasAdmin
                     THEN Refreshed(h.cmd, h.user)
                     ELSE onCooldown
          /\ Leaves(h, "running") => onCooldown' = onCooldown ]_vars

\* C11 witness: a non-operator without admin rights was denied by the
\* permission check, and the cooldown entry of that user was written.
C11_Witness ==
    /\ last.step = "gate"
    /\ last.permChecked
    /\ ~last.info.canRun
    /\ ~last.info.hasAdmin
    /\ last.user = "alice"
    /\ onCooldown[last.cmd][last.user] = now + NameCommands[last.cmd].commandCooldown

\* C12: an invocation whose permission check denies the run (canRun false)
\* leaves the cooldown record of every user unchanged.
C12_DeniedRunLeavesCooldown ==
    [][ (last'.step = "gate" /\ last'.permChecked /\ ~last'.info.canRun)
          => onCooldown' = onCooldown ]_vars

\* C13 (as stated): an invocation whose command name is not in the registry
\* sends no reply, runs no command body and changes no cooldown record, in
\* either process mode and for every user.
C13_UnknownCommandNoOp ==
    [][ (last'.step = "receive" /\ last'.cmd \notin DOMAIN NameCommands)
          => /\ last'.reply = "none"
             /\ ~last'.ranBody
             /\ handlers' = handlers
             /\ onCooldown' = onCooldown ]_vars

\* C13 (amended): an invocation that passes the development-mode gate (the
\* process is in production mode, or the user is an operator) and whose
\* command name is not in the registry sends no reply, runs no command body,
\* suspends no handler and changes no cooldown record; when the gate blocks
\* it, the only reply is the development-mode notice.
C13_UnknownCommandNoOpPastDevGate ==
    [][ (last'.step = "receive" /\ last'.cmd \notin DOMAIN NameCommands)
          => /\ (isProd \/ last'.user \in BotOwnerIds) => last'.reply = "none"
             /\ last'.reply \in {"none", "dev"}
             /\ ~last'.ranBody
             /\ ~last'.readCooldown
             /\ handlers' = handlers
             /\ onCooldown' = onCooldown ]_vars

\* C13 witness: in production mode a non-operator invoked an unknown name
\* and the handler returned without a reply.
C13_Witness ==
    /\ isProd
    /\ last.step = "receive"
    /\ last.user = "alice"
    /\ last.cmd \notin DOMAIN NameCommands
    /\ last.outcome = "ignored"
    /\ last.reply = "none"

\* C14: outside production mode an invocation by a user who is not in
\* botOwnerIds gets the development-mode notice, suspends no handler, runs
\* no command body and neither reads nor writes a cooldown record, so no
\* later step of the handler acts for such a user; an operator's invocation
\* reaches the command lookup in either mode (ignored when the name is
\* unknown, suspended at members.fetch otherwise).
C14_DevModeGate ==
    [][ /\ (last'.step = "receive" /\ ~isProd /\ last'.user \notin BotOwnerIds)
           => /\ last'.reply = "dev"
              /\ ~last'.ranBody
              /\ ~last'.readCooldown
              /\ handlers' = handlers
              /\ onCooldown' = onCooldown
        /\ (last'.step \in {"gate", "runDone"} /\ ~isProd)
           => last'.user \in BotOwnerIds
        /\ (last'.step = "receive" /\ last'.user \in BotOwnerIds)
           => /\ last'.reply = "none"
              /\ last'.outcome =
                   IF last'.cmd \in DOMAIN NameCommands THEN "fetch" ELSE "ignored"
      ]_vars

\* C14 witness: outside production mode a non-operator invoked a registered
\* command and was answered with the development-mode notice.
C14_Witness ==
    /\ ~isProd
    /\ last.step = "receive"
    /\ last.user = "alice"
    /\ last.cmd \in DOMAIN NameCommands
    /\ last.reply = "dev"

\* C21: a handler that passed the cooldown gate for a guild-only command
\* without a guild replies with the guild-only rejection (ephemerally),
\* does not call hasPermissionToRun, does not run the body, returns, and
\* leaves every cooldown record unchanged.  The gates are evaluated in the
\* order dev-mode, lookup, cooldown, guild-only, permission: a blocked user
\* gets the dev-mode notice whatever the name is; an unknown name is
\* dropped before any cooldown is read; a positive cooldown is answered
\* with the cooldown notice also when the guild-only gate would reject; and
\* the permission check is evaluated only when neither gate stopped.
C21_GuildOnlyGateAndOrder ==
    [][ /\ \A h \in BagToSet(handlers) :
             /\ (/\ Leaves(h, "fetch")
                 /\ ~(CheckCooldownFor(h.cmd, h.user) > 0)
                 /\ NameCommands[h.cmd].guildOnly /\ ~h.hasGuild)
                => /\ last'.step = "gate"
                   /\ last'.reply = "guild"
                   /\ last'.ephemeral
                   /\ ~last'.permChecked
                   /\ ~last'.ranBody
                   /\ handlers' = Without(handlers, h)
                   /\ onCooldown' = onCooldown
             /\ (/\ Leaves(h, "fetch")
                 /\ CheckCooldownFor(h.cmd, h.user) > 0
                 /\ NameCommands[h.cmd].guildOnly /\ ~h.hasGuild)
                => last'.reply = "cooldown"
             /\ Leaves(h, "fetch") =>
                   (last'.permChecked <=>
                       /\ ~(CheckCooldownFor(h.cmd, h.user) > 0)
                       /\ ~(NameCommands[h.cmd].guildOnly /\ ~h.hasGuild))
        /\ last'.step = "receive" =>
             /\ ~last'.readCooldown /\ ~last'.permChecked
             /\ (~isProd /\ last'.user \notin BotOwnerIds) <=> last'.reply = "dev"
             /\ last'.outcome = "ignored" => last'.cmd \notin DOMAIN NameCommands
             /\ last'.outcome = "fetch" => last'.cmd \in DOMAIN NameCommands
      ]_vars

\* C21 witness: a guild-only command invoked without a guild, by a user
\* who is not on cooldown, was answered with the guild-only rejection.
C21_Witness ==
    /\ last.step = "gate"
    /\ last.outcome = "guild"
    /\ last.reply = "guild"
    /\ NameCommands[last.cmd].guildOnly
    /\ onCooldown[last.cmd][last.user] = NoEntry

\* what the dispatcher may send as a reply
DispatcherReplies(info) ==
    {"dev", "cooldown", "guild", "diagnostic"} \cup
        (IF info.reason # "" THEN {info.reason} ELSE {})

HasField(fields, name) == \E i \in DOMAIN fields : fields[i] = name

\* C15: when the permission check denies the run, the body is not run; with
\* a rejection reason the reply is exactly the reason, ephemeral, and no
\* diagnostic is built; without one the diagnostic has the missing-member
\* section iff missingUserPerms is non-empty, the missing-bot section iff
\* missingBotPerms is non-empty, and the unknown-error section iff both are
\* empty.
C15_DeniedRunReply ==
    [][ (last'.step = "gate" /\ last'.permChecked /\ ~last'.info.canRun)
          => /\ ~last'.ranBody
             /\ IF last'.info.reason # ""
                THEN /\ last'.reply = last'.info.reason
                     /\ last'.ephemeral
                     /\ last'.fields = <<>>
                ELSE /\ last'.reply = "diagnostic"
                     /\ HasField(last'.fields, "Missing Member Permissions (Need ??? 1)")
                          <=> last'.info.missingUserPerms # <<>>
                     /\ HasField(last'.fields, "Missing Bot Permissions (Need All)")
                          <=> last'.info.missingBotPerms # <<>>
                     /\ HasField(last'.fields, "Unknown Error")
                          <=> (/\ last'.info.missingUserPerms = <<>>
                               /\ last'.info.missingBotPerms = <<>>) ]_vars

\* C15 witness: a denied run without a reason and with only bot permissions
\* missing was answered with the diagnostic.
C15_Witness ==
    /\ last.step = "gate"
    /\ last.permChecked
    /\ ~last.info.canRun
    /\ last.info.reason = ""
    /\ last.info.missingUserPerms = <<>>
    /\ last.info.missingBotPerms # <<>>
    /\ last.fields = << "Missing Bot Permissions (Need All)" >>


(***************************************************************************)
(*                         ADVANCED COLLECTOR                              *)
(*                                                                         *)
(* One wait operation runs per behaviour.  An action is one run of the     *)
(* code between two suspension points (an await on an external call, or    *)
(* the arrival of an event).  The extractor `func` may return a promise,   *)
(* so `await func(c)` is a suspension point.  External calls may fail:     *)
(* their outcome is an input of the action that resumes after them.        *)
(***************************************************************************)
Null == "NULL"
Pending == "PENDING"
\* the promise of the operation was rejected: an exception reached the caller
Exception == "EXCEPTION"
\* the collected MessageComponentInteraction
Interaction == "INTERACTION"
\* the Message the operation owns
BotMessage == "MSG"

TargetAuthor == "target"
Authors == {TargetAuthor, "other"}

\* contents of the messages the target author may send
Contents == {"CANCEL", "yes", "zero", "no"}

\* the values options.cancelFlag takes (string | null)
CancelFlags == {Null, "Cancel"}

\* String.prototype.toLowerCase on the strings of the model
ToLowerCase(str) ==
    CASE str = "CANCEL" -> "cancel"
      [] str = "Cancel" -> "cancel"
      [] OTHER -> str

\* The caller's extractor: what func(c) yields for each content.  It accepts
\* the text of the cancel token as well, yields the number 0 for "zero" and
\* undefined for "no".
Func(content) ==
    CASE content = "CANCEL" -> "VAL_CANCEL"
      [] content = "yes" -> "VAL_YES"
      [] content = "zero" -> "NUM_0"
      [] OTHER -> "UNDEFINED"

\* JavaScript truthiness of the values of the model
Truthy(v) == v \notin {"UNDEFINED", Null, "NUM_0", "STR_EMPTY", "BOOL_FALSE"}

\* JavaScript's a ?? b
NullishCoalesce(a, b) == IF a \in {"UNDEFINED", Null} THEN b ELSE a

\* filter: (m: Message) => m.author.id === options.targetAuthor.id
MsgFilter(author) == author = TargetAuthor

\* filter: i => i.user.id === options.targetAuthor.id
InteractionFilter(user) == user = TargetAuthor

\* custom ids of components, as sequences of their parts
UniqueIdentifier == <<"uid">>
CustomIds == { <<"uid", "yes">>, <<"zzz", "yes">> }

\* String.prototype.startsWith
StartsWith(str, prefix) ==
    /\ Len(prefix) <= Len(str)
    /\ SubSeq(str, 1, Len(prefix)) = prefix

\* filter: i => i.user.id === targetAuthor.id && i.customId.startsWith(uniqueIdentifier)
EphemeralFilter(user, customId) ==
    user = TargetAuthor /\ StartsWith(customId, UniqueIdentifier)

\* cancelFlag && cancelFlag.toLowerCase() === c.content.toLowerCase()
IsCancel(cancelFlag, content) ==
    /\ Truthy(cancelFlag)
    /\ ToLowerCase(cancelFlag) = ToLowerCase(content)

\* GeneralUtilities.tryExecuteAsync: the value of the call, null if it threw
TryExecuteAsync(ok, value) == IF ok THEN value ELSE Null

\* where the bot message comes from: options.msgOptions, options.oldMsg, neither
MsgSources == {"msgOptions", "oldMsg", "none"}

\* initSendCollectorMessage
InitSendCollectorMessage(src, sendOk) ==
    IF src = "msgOptions" THEN TryExecuteAsync(sendOk, BotMessage)
    ELSE IF src = "oldMsg" THEN BotMessage
    ELSE Null

\* The part of the state the collectors' event handlers work on.
Cur ==
    [msgCollector |-> msgCollector,
     interactionCollector |-> interactionCollector,
     hasCalled |-> hasCalled,
     result |-> result,
     resolvedBy |-> resolvedBy,
     botDeleteCalls |-> botDeleteCalls,
     botEditCalls |-> botEditCalls]

\* the variables take the values of the record st
Commit(st) ==
    /\ msgCollector' = st.msgCollector
    /\ interactionCollector' = st.interactionCollector
    /\ hasCalled' = st.hasCalled
    /\ result' = st.result
    /\ resolvedBy' = st.resolvedBy
    /\ botDeleteCalls' = st.botDeleteCalls
    /\ botEditCalls' = st.botEditCalls

\* resolve(v): settles the promise unless it is settled already
Resolve(st, v, by) ==
    IF st.result = Pending
    THEN [st EXCEPT !.result = v, !.resolvedBy = by]
    ELSE st

\* a newly collected message, with the handler's position
NewMsg(content, at) ==
    [content |-> content, pc |-> at,
     deleteCalled |-> options.deleteResponseMessage,
     funcApplied |-> (at = "func"),
     late |-> (result # Pending)]

(***************************************************************************)
(* startNormalCollector                                                    *)
(***************************************************************************)
\* msgCollector.on("end", (c, r) => ...)
NormalOnEnd(st, r, deletable) ==
    LET d == IF options.deleteBaseMsgAfterComplete /\ botMsg # Null /\ deletable
             THEN [st EXCEPT !.botDeleteCalls = @ + 1]
             ELSE st
    IN IF r = "time" THEN Resolve(d, Null, "time") ELSE d

\* msgCollector.stop(): Collector.stop ends the collector once and emits "end"
NormalStop(st, r, deletable) ==
    IF st.msgCollector # "active" THEN st
    ELSE NormalOnEnd([st EXCEPT !.msgCollector = "ended"], r, deletable)

\* The "collect" handler after the optional deletion of the response: the
\* cancel check, then the call of func.  Yields the handler's position and
\* the state.
NormalAfterDelete(st, content) ==
    IF IsCancel(options.cancelFlag, content)
    THEN [at |-> "done", st |-> Resolve(st, Null, "cancel")]
    ELSE [at |-> "func", st |-> st]

\* const botMsg = await initSendCollectorMessage(options); new MessageCollector(...)
NormalStart(src, sendOk) ==
    /\ mode = "normal" /\ pc = "init"
    /\ botMsg' = InitSendCollectorMessage(src, sendOk)
    /\ msgCollector' = "active"
    /\ pc' = "started"
    /\ UNCHANGED <<mode, options, interactionCollector, hasCalled, result,
                   resolvedBy, msgs, inter, botDeleteCalls, botEditCalls>>
    /\ UNCHANGED dispatchVars
    /\ UNCHANGED helperVars
    /\ UNCHANGED botVars

\* a message passes the filter of the active collector: the "collect" handler
\* runs to its first suspension
NormalCollect(author, content) ==
    /\ mode = "normal" /\ msgCollector = "active"
    /\ MsgFilter(author)
    /\ Len(msgs) < MaxMsgs
    /\ IF options.deleteResponseMessage
       THEN /\ msgs' = Append(msgs, NewMsg(content, "delete"))
            /\ Commit(Cur)
       ELSE LET r == NormalAfterDelete(Cur, content)
            IN /\ msgs' = Append(msgs, NewMsg(content, r.at))
               /\ Commit(r.st)
    /\ UNCHANGED <<mode, options, pc, botMsg, inter>>
    /\ UNCHANGED dispatchVars
    /\ UNCHANGED helperVars
    /\ UNCHANGED botVars

\* await c.delete().catch() settles.  catch() is given no handler, so a
\* rejected delete rejects the awaited promise too and the handler ends there.
NormalDeleteDone(k, ok) ==
    /\ mode = "normal"
    /\ k \in 1..Len(msgs) /\ msgs[k].pc = "delete"
    /\ IF ok
       THEN LET r == NormalAfterDelete(Cur, msgs[k].content)
            IN /\ msgs' = [msgs EXCEPT ![k].pc = r.at,
                                       ![k].funcApplied = (r.at = "func")]
               /\ Commit(r.st)
       ELSE /\ msgs' = [msgs EXCEPT ![k].pc = "threw"]
            /\ Commit(Cur)
    /\ UNCHANGED <<mode, options, pc, botMsg, inter>>
    /\ UNCHANGED dispatchVars
    /\ UNCHANGED helperVars
    /\ UNCHANGED botVars

\* res(attempt ? attempt : null)
NormalInfo(attempt) == IF Truthy(attempt) THEN attempt ELSE Null

\* if (!info) return;
NormalNoInfo(info) == ~Truthy(info)

\* await func(c) settles: info, then msgCollector.stop() and resolve(info)
NormalFuncDone(k, deletable) ==
    /\ mode = "normal"
    /\ k \in 1..Len(msgs) /\ msgs[k].pc = "func"
    /\ LET info == NormalInfo(Func(msgs[k].content))
       IN IF NormalNoInfo(info)
          THEN Commit(Cur)
          ELSE Commit(Resolve(NormalStop(Cur, "user", deletable), info, "match"))
    /\ msgs' = [msgs EXCEPT ![k].pc = "done"]
    /\ UNCHANGED <<mode, options, pc, botMsg, inter>>
    /\ UNCHANGED dispatchVars
    /\ UNCHANGED helperVars
    /\ UNCHANGED botVars

\* the collector's timer (time: options.duration) fires: stop("time")
NormalTimeout(deletable) ==
    /\ mode = "normal" /\ msgCollector = "active"
    /\ Commit(NormalStop(Cur, "time", deletable))
    /\ UNCHANGED <<mode, options, pc, botMsg, msgs, inter>>
    /\ UNCHANGED dispatchVars
    /\ UNCHANGED helperVars
    /\ UNCHANGED botVars


(***************************************************************************)
(* startInteractionEphemeralCollector and startInteractionCollector        *)
(***************************************************************************)
\* the local variable returnInteraction
ReturnInteraction(i) == IF i.state = "none" THEN Null ELSE Interaction

\* the interaction collected now, with its handler's position
NewInteraction(at) ==
    [state |-> at, late |-> (result # Pending), before |-> Len(msgs)]

\* awaitMessageComponent is called on the channel; no message is sent
EphemeralStart ==
    /\ mode = "ephemeral" /\ pc = "init"
    /\ interactionCollector' = "active"
    /\ pc' = "awaiting"
    /\ UNCHANGED <<mode, options, botMsg, msgCollector, hasCalled, result,
                   resolvedBy, msgs, inter, botDeleteCalls, botEditCalls>>
    /\ UNCHANGED dispatchVars
    /\ UNCHANGED helperVars
    /\ UNCHANGED botVars

\* awaitMessageComponent resolves with an interaction that passes the filter
EphemeralResolve(user, customId) ==
    /\ mode = "ephemeral" /\ pc = "awaiting"
    /\ EphemeralFilter(user, customId)
    /\ interactionCollector' = "ended"
    /\ IF options.acknowledgeImmediately
       THEN /\ inter' = NewInteraction("defer")
            /\ pc' = "defer"
            /\ UNCHANGED <<result, resolvedBy>>
       ELSE /\ inter' = NewInteraction("done")
            /\ pc' = "done"
            /\ result' = ReturnInteraction(inter')
            /\ resolvedBy' = "interaction"
    /\ UNCHANGED <<mode, options, botMsg, msgCollector, hasCalled, msgs,
                   botDeleteCalls, botEditCalls>>
    /\ UNCHANGED dispatchVars
    /\ UNCHANGED helperVars
    /\ UNCHANGED botVars

\* awaitMessageComponent rejects (the time ran out, or the wait failed): the
\* catch block ignores the error
EphemeralReject ==
    /\ mode = "ephemeral" /\ pc = "awaiting"
    /\ interactionCollector' = "ended"
    /\ pc' = "done"
    /\ result' = ReturnInteraction(inter)
    /\ resolvedBy' = "time"
    /\ UNCHANGED <<mode, options, botMsg, msgCollector, hasCalled, msgs, inter,
                   botDeleteCalls, botEditCalls>>
    /\ UNCHANGED dispatchVars
    /\ UNCHANGED helperVars
    /\ UNCHANGED botVars

\* await returnInteraction.deferUpdate() settles; a rejection is caught
EphemeralDeferDone(ok) ==
    /\ mode = "ephemeral" /\ pc = "defer"
    /\ inter' = [inter EXCEPT !.state = IF ok THEN "done" ELSE "threw"]
    /\ pc' = "done"
    /\ result' = ReturnInteraction(inter)
    /\ resolvedBy' = "interaction"
    /\ UNCHANGED <<mode, options, botMsg, msgCollector, interactionCollector,
                   hasCalled, msgs, botDeleteCalls, botEditCalls>>
    /\ UNCHANGED dispatchVars
    /\ UNCHANGED helperVars
    /\ UNCHANGED botVars

\* (a variant that clears the components without reading botMsg.editable)
OwnedFinallyAlwaysClears(st, ret, by, editable, cleanupOk) ==
    LET out == IF cleanupOk
               THEN [st EXCEPT !.result = ret, !.resolvedBy = by]
               ELSE [st EXCEPT !.result = Exception, !.resolvedBy = "exception"]
    IN IF options.deleteBaseMsgAfterComplete
       THEN [out EXCEPT !.botDeleteCalls = @ + 1]
       ELSE IF options.clearInteractionsAfterComplete
       THEN [out EXCEPT !.botEditCalls = @ + 1]
       ELSE [st EXCEPT !.result = ret, !.resolvedBy = by]

\* The finally block of startInteractionCollector followed by the return.
\* await botMsg.delete().catch() and await botMsg.edit(...).catch(): catch()
\* is given no handler, so a rejected call throws out of the finally block.
OwnedFinally(st, ret, by, editable, cleanupOk) ==
    LET out == IF cleanupOk
               THEN [st EXCEPT !.result = ret, !.resolvedBy = by]
               ELSE [st EXCEPT !.result = Exception, !.resolvedBy = "exception"]
    IN IF options.deleteBaseMsgAfterComplete
       THEN [out EXCEPT !.botDeleteCalls = @ + 1]
       ELSE IF options.clearInteractionsAfterComplete /\ editable
       THEN [out EXCEPT !.botEditCalls = @ + 1]
       ELSE [st EXCEPT !.result = ret, !.resolvedBy = by]

\* const botMsg = await initSendCollectorMessage(options); if (!botMsg) return null;
OwnedStart(src, sendOk) ==
    /\ mode = "owned" /\ pc = "init"
    /\ botMsg' = InitSendCollectorMessage(src, sendOk)
    /\ IF botMsg' = Null
       THEN /\ pc' = "done"
            /\ result' = Null
            /\ resolvedBy' = "nostart"
            /\ UNCHANGED interactionCollector
       ELSE /\ pc' = "awaiting"
            /\ interactionCollector' = "active"
            /\ UNCHANGED <<result, resolvedBy>>
    /\ UNCHANGED <<mode, options, msgCollector, hasCalled, msgs, inter,
                   botDeleteCalls, botEditCalls>>
    /\ UNCHANGED dispatchVars
    /\ UNCHANGED helperVars
    /\ UNCHANGED botVars

\* botMsg.awaitMessageComponent resolves with an interaction of the target
OwnedResolve(user, editable, cleanupOk) ==
    /\ mode = "owned" /\ pc = "awaiting"
    /\ InteractionFilter(user)
    /\ IF options.acknowledgeImmediately
       THEN /\ inter' = NewInteraction("defer")
            /\ pc' = "defer"
            /\ Commit([Cur EXCEPT !.interactionCollector = "ended"])
       ELSE /\ inter' = NewInteraction("done")
            /\ pc' = "done"
            /\ Commit(OwnedFinally([Cur EXCEPT !.interactionCollector = "ended"],
                                   ReturnInteraction(inter'), "interaction",
                                   editable, cleanupOk))
    /\ UNCHANGED <<mode, options, botMsg, msgs>>
    /\ UNCHANGED dispatchVars
    /\ UNCHANGED helperVars
    /\ UNCHANGED botVars

\* botMsg.awaitMessageComponent rejects: caught, then the finally block
OwnedReject(editable, cleanupOk) ==
    /\ mode = "owned" /\ pc = "awaiting"
    /\ pc' = "done"
    /\ Commit(OwnedFinally([Cur EXCEPT !.interactionCollector = "ended"],
                           ReturnInteraction(inter), "time", editable, cleanupOk))
    /\ UNCHANGED <<mode, options, botMsg, msgs, inter>>
    /\ UNCHANGED dispatchVars
    /\ UNCHANGED helperVars
    /\ UNCHANGED botVars

\* await returnInteraction.deferUpdate() settles (a rejection is caught),
\* then the finally block
OwnedDeferDone(ok, editable, cleanupOk) ==
    /\ mode = "owned" /\ pc = "defer"
    /\ inter' = [inter EXCEPT !.state = IF ok THEN "done" ELSE "threw"]
    /\ pc' = "done"
    /\ Commit(OwnedFinally(Cur, ReturnInteraction(inter), "interaction",
                           editable, cleanupOk))
    /\ UNCHANGED <<mode, options, botMsg, msgs>>
    /\ UNCHANGED dispatchVars
    /\ UNCHANGED helperVars
    /\ UNCHANGED botVars

(***************************************************************************)
(* startDoubleCollector                                                    *)
(***************************************************************************)
\* function acknowledgeDeletion(r)
AcknowledgeDeletion(st, r, deletable, editable) ==
    IF st.hasCalled THEN st
    ELSE LET h == [st EXCEPT !.hasCalled = TRUE]
             c == IF options.deleteBaseMsgAfterComplete /\ deletable
                  THEN [h EXCEPT !.botDeleteCalls = @ + 1]
                  ELSE IF options.clearInteractionsAfterComplete /\ editable
                  THEN [h EXCEPT !.botEditCalls = @ + 1]
                  ELSE h
         IN IF r = "time" THEN Resolve(c, Null, "time") ELSE c

\* msgCollector.stop(r): ends the collector once; its "end" handler runs
DoubleStopMsg(st, r, deletable, editable) ==
    IF st.msgCollector # "active" THEN st
    ELSE AcknowledgeDeletion([st EXCEPT !.msgCollector = "ended"], r,
                             deletable, editable)

\* interactionCollector.stop(r): ends the collector once; its "end" handler runs
DoubleStopInteraction(st, r, deletable, editable) ==
    IF st.interactionCollector # "active" THEN st
    ELSE AcknowledgeDeletion([st EXCEPT !.interactionCollector = "ended"], r,
                             deletable, editable)

\* The message "collect" handler after the optional deletion of the response:
\* on the cancel token interactionCollector.stop() and resolve(null),
\* otherwise the call of func.
DoubleAfterDelete(st, content, deletable, editable) ==
    IF IsCancel(options.cancelFlag, content)
    THEN [at |-> "done",
          st |-> Resolve(DoubleStopInteraction(st, "user", deletable, editable),
                         Null, "cancel")]
    ELSE [at |-> "func", st |-> st]

\* const botMsg = await initSendCollectorMessage(options); if (!botMsg) return null;
\* then both collectors are created
DoubleStart(src, sendOk) ==
    /\ mode = "double" /\ pc = "init"
    /\ botMsg' = InitSendCollectorMessage(src, sendOk)
    /\ IF botMsg' = Null
       THEN /\ pc' = "done"
            /\ result' = Null
            /\ resolvedBy' = "nostart"
            /\ UNCHANGED <<msgCollector, interactionCollector>>
       ELSE /\ pc' = "started"
            /\ msgCollector' = "active"
            /\ interactionCollector' = "active"
            /\ UNCHANGED <<result, resolvedBy>>
    /\ UNCHANGED <<mode, options, hasCalled, msgs, inter, botDeleteCalls, botEditCalls>>
    /\ UNCHANGED dispatchVars
    /\ UNCHANGED helperVars
    /\ UNCHANGED botVars

\* a message passes the filter of the active message collector
DoubleMsgCollect(author, content, deletable, editable) ==
    /\ mode = "double" /\ msgCollector = "active"
    /\ MsgFilter(author)
    /\ Len(msgs) < MaxMsgs
    /\ IF options.deleteResponseMessage
       THEN /\ msgs' = Append(msgs, NewMsg(content, "delete"))
            /\ Commit(Cur)
       ELSE LET r == DoubleAfterDelete(Cur, content, deletable, editable)
            IN /\ msgs' = Append(msgs, NewMsg(content, r.at))
               /\ Commit(r.st)
    /\ UNCHANGED <<mode, options, pc, botMsg, inter>>
    /\ UNCHANGED dispatchVars
    /\ UNCHANGED helperVars
    /\ UNCHANGED botVars

\* await tryExecuteAsync(c.delete) settles; a failed delete is swallowed
DoubleDeleteDone(k, deletable, editable) ==
    /\ mode = "double"
    /\ k \in 1..Len(msgs) /\ msgs[k].pc = "delete"
    /\ LET r == DoubleAfterDelete(Cur, msgs[k].content, deletable, editable)
       IN /\ msgs' = [msgs EXCEPT ![k].pc = r.at,
                                  ![k].funcApplied = (r.at = "func")]
          /\ Commit(r.st)
    /\ UNCHANGED <<mode, options, pc, botMsg, inter>>
    /\ UNCHANGED dispatchVars
    /\ UNCHANGED helperVars
    /\ UNCHANGED botVars

\* res(attempt ?? null)
DoubleInfo(attempt) == NullishCoalesce(attempt, Null)

\* await func(c) settles: if info is not null, resolve(info) and both stops
DoubleFuncDone(k, deletable, editable) ==
    /\ mode = "double"
    /\ k \in 1..Len(msgs) /\ msgs[k].pc = "func"
    /\ LET info == DoubleInfo(Func(msgs[k].content))
       IN IF info = Null
          THEN Commit(Cur)
          ELSE Commit(DoubleStopMsg(
                        DoubleStopInteraction(Resolve(Cur, info, "match"),
                                              "user", deletable, editable),
                        "user", deletable, editable))
    /\ msgs' = [msgs EXCEPT ![k].pc = "done"]
    /\ UNCHANGED <<mode, options, pc, botMsg, inter>>
    /\ UNCHANGED dispatchVars
    /\ UNCHANGED helperVars
    /\ UNCHANGED botVars

\* A component interaction passes the filter of the active component
\* collector.  Its "collect" handler runs to the await of deferUpdate, or,
\* without acknowledgeImmediately, to its end: resolve(i), msgCollector.stop().
\* Then the collector, created with max: 1, ends with reason "limit".
DoubleInteractionCollect(user, deletable, editable) ==
    /\ mode = "double" /\ interactionCollector = "active"
    /\ InteractionFilter(user)
    /\ IF options.acknowledgeImmediately
       THEN /\ inter' = NewInteraction("defer")
            /\ Commit(DoubleStopInteraction(Cur, "limit", deletable, editable))
       ELSE /\ inter' = NewInteraction("done")
            /\ Commit(DoubleStopInteraction(
                        DoubleStopMsg(Resolve(Cur, Interaction, "interaction"),
                                      "user", deletable, editable),
                        "limit", deletable, editable))
    /\ UNCHANGED <<mode, options, pc, botMsg, msgs>>
    /\ UNCHANGED dispatchVars
    /\ UNCHANGED helperVars
    /\ UNCHANGED botVars

\* await i.deferUpdate() settles.  Nothing catches a rejection: the handler
\* ends there, without resolve(i) and without msgCollector.stop().
DoubleDeferDone(ok, deletable, editable) ==
    /\ mode = "double" /\ inter.state = "defer"
    /\ IF ok
       THEN /\ inter' = [inter EXCEPT !.state = "done"]
            /\ Commit(DoubleStopMsg(Resolve(Cur, Interaction, "interaction"),
                                    "user", deletable, editable))
       ELSE /\ inter' = [inter EXCEPT !.state = "threw"]
            /\ Commit(Cur)
    /\ UNCHANGED <<mode, options, pc, botMsg, msgs>>
    /\ UNCHANGED dispatchVars
    /\ UNCHANGED helperVars
    /\ UNCHANGED botVars

\* The timers of the collectors fire.  Both collectors are created in the
\* same synchronous block with time: options.duration, so their timers expire
\* together, the message collector's first: stop("time") on each collector
\* that is still active.
DoubleTimeout(deletable, editable) ==
    /\ mode = "double"
    /\ msgCollector = "active" \/ interactionCollector = "active"
    /\ Commit(DoubleStopInteraction(
                DoubleStopMsg(Cur, "time", deletable, editable),
                "time", deletable, editable))
    /\ UNCHANGED <<mode, options, pc, botMsg, msgs, inter>>
    /\ UNCHANGED dispatchVars
    /\ UNCHANGED helperVars
    /\ UNCHANGED botVars

(***************************************************************************)
(* Specification of the collector utility: one wait operation, with every  *)
(* setting of its options.                                                 *)
(***************************************************************************)
Modes == {"normal", "ephemeral", "owned", "double"}

\* the options objects each operation accepts (fields an operation does not
\* have are left at false / null)
OptionsOf(m) ==
    { [deleteBaseMsgAfterComplete |-> db,
       clearInteractionsAfterComplete |-> cl,
       acknowledgeImmediately |-> ack,
       deleteResponseMessage |-> dr,
       cancelFlag |-> cf] :
         db \in IF m = "ephemeral" THEN {FALSE} ELSE BOOLEAN,
         cl \in IF m \in {"owned", "double"} THEN BOOLEAN ELSE {FALSE},
         ack \in IF m = "normal" THEN {FALSE} ELSE BOOLEAN,
         dr \in IF m \in {"normal", "double"} THEN BOOLEAN ELSE {FALSE},
         cf \in IF m \in {"normal", "double"} THEN CancelFlags ELSE {Null} }

DispatchIdle ==
    /\ isProd = TRUE
    /\ now = 1
    /\ onCooldown = [c \in DOMAIN NameCommands |-> [u \in Users |-> NoEntry]]
    /\ handlers = EmptyBag
    /\ last = NoStep

InitCollector ==
    /\ mode \in Modes
    /\ options \in OptionsOf(mode)
    /\ pc = "init"
    /\ botMsg = Null
    /\ msgCollector = "none"
    /\ interactionCollector = "none"
    /\ hasCalled = FALSE
    /\ result = Pending
    /\ resolvedBy = "none"
    /\ msgs = <<>>
    /\ inter = [state |-> "none", late |-> FALSE, before |-> 0]
    /\ botDeleteCalls = 0
    /\ botEditCalls = 0
    /\ botDeletable \in BOOLEAN
    /\ botEditable \in BOOLEAN
    /\ DispatchIdle
    /\ HelperIdle

NextCollector ==
    \/ \E src \in MsgSources, sendOk \in BOOLEAN : NormalStart(src, sendOk)
    \/ \E a \in Authors, c \in Contents : NormalCollect(a, c)
    \/ \E k \in 1..MaxMsgs, ok \in BOOLEAN : NormalDeleteDone(k, ok)
    \/ \E k \in 1..MaxMsgs : NormalFuncDone(k, botDeletable)
    \/ NormalTimeout(botDeletable)
    \/ EphemeralStart
    \/ \E u \in Authors, id \in CustomIds : EphemeralResolve(u, id)
    \/ EphemeralReject
    \/ \E ok \in BOOLEAN : EphemeralDeferDone(ok)
    \/ \E src \in MsgSources, sendOk \in BOOLEAN : OwnedStart(src, sendOk)
    \/ \E u \in Authors, ok \in BOOLEAN : OwnedResolve(u, botEditable, ok)
    \/ \E ok \in BOOLEAN : OwnedReject(botEditable, ok)
    \/ \E dok \in BOOLEAN, ok \in BOOLEAN : OwnedDeferDone(dok, botEditable, ok)
    \/ \E src \in MsgSources, sendOk \in BOOLEAN : DoubleStart(src, sendOk)
    \/ \E a \in Authors, c \in Contents :
           DoubleMsgCollect(a, c, botDeletable, botEditable)
    \/ \E k \in 1..MaxMsgs : DoubleDeleteDone(k, botDeletable, botEditable)
    \/ \E k \in 1..MaxMsgs : DoubleFuncDone(k, botDeletable, botEditable)
    \/ \E u \in Authors : DoubleInteractionCollect(u, botDeletable, botEditable)
    \/ \E ok \in BOOLEAN : DoubleDeferDone(ok, botDeletable, botEditable)
    \/ DoubleTimeout(botDeletable, botEditable)

SpecCollector == InitCollector /\ [][NextCollector]_vars


(***************************************************************************)
(*                  CLAIMS ABOUT THE COLLECTOR UTILITY                     *)
(***************************************************************************)
\* message k carries the configured cancel token (ignoring case)
IsCancelMsg(k) == IsCancel(options.cancelFlag, msgs[k].content)

\* the "collect" handler of message k has ended (returned or thrown)
HandlerOver(k) == msgs[k].pc \in {"done", "threw"}

\* message k is a qualifying input: not the cancel token, and the extractor
\* yields a defined value for it
Qualifying(k) == ~IsCancelMsg(k) /\ Func(msgs[k].content) # "UNDEFINED"

\* both collectors of the combined wait have ended and no handler is
\* suspended at an await
Quiescent ==
    /\ msgCollector = "ended" /\ interactionCollector = "ended"
    /\ \A k \in 1..Len(msgs) : HandlerOver(k)
    /\ inter.state # "defer"

\* C2: in a combined wait the bot-message cleanup of acknowledgeDeletion is
\* performed at most once, it has been decided as soon as either collector
\* has ended, and once both collectors have ended and every handler has run
\* to its end the returned promise is settled (by exactly one outcome).
C2_ExactlyOneResolutionAndCleanup ==
    mode = "double" =>
        /\ botDeleteCalls + botEditCalls <= 1
        /\ (msgCollector = "ended" \/ interactionCollector = "ended") => hasCalled
        /\ Quiescent => result # Pending

\* C3: in the text-only and combined waits, a collected message that carries
\* the cancel token is never passed to the extractor, and once its handler
\* has ended the wait is resolved, and not to a value matched from it.
C3_CancelTokenCancels ==
    mode \in {"normal", "double"} =>
        \A k \in 1..Len(msgs) :
            IsCancelMsg(k) =>
                /\ ~msgs[k].funcApplied
                /\ HandlerOver(k) =>
                      /\ result # Pending
                      /\ ~(resolvedBy = "match" /\ result = Func(msgs[k].content))

\* no qualifying input arrived: no component interaction, no cancel token and
\* no message the extractor accepts
NoQualifyingInput ==
    /\ inter.state = "none"
    /\ \A k \in 1..Len(msgs) : ~IsCancelMsg(k) /\ ~Qualifying(k)

\* the wait operation is over: it returned, or all its collectors have ended
OperationOver ==
    CASE mode = "normal" -> msgCollector = "ended"
      [] mode = "double" ->
            pc = "done" \/ (msgCollector = "ended" /\ interactionCollector = "ended")
      [] OTHER -> pc = "done"

\* C4: in every wait mode, when the operation is over and no qualifying input
\* arrived, it has resolved to null, the bot message was cleaned up at most
\* once, and the owned component wait configured to delete its message has
\* requested that deletion exactly once.
C4_TimeoutYieldsNoResult ==
    (NoQualifyingInput /\ OperationOver) =>
        /\ result = Null
        /\ botDeleteCalls + botEditCalls <= 1
        /\ (mode = "owned" /\ botMsg # Null /\ options.deleteBaseMsgAfterComplete)
              => botDeleteCalls = 1

\* the value a wait resolves to when its time runs out: resolve(null)
TimeoutOutcome == Null

\* C5: the value a text-only or combined wait resolves to on the cancel token
\* differs from the value it resolves to when the duration expires.
C5_CancelDiffersFromTimeout ==
    resolvedBy = "cancel" => result # TimeoutOutcome

\* indices of the qualifying messages, and the first of them
QualifyingIdx == {k \in 1..Len(msgs) : Qualifying(k)}
FirstQualifying == CHOOSE k \in QualifyingIdx : \A j \in QualifyingIdx : k <= j

\* the component interaction was collected before any qualifying message
InteractionFirst ==
    inter.state # "none" /\ (QualifyingIdx = {} \/ inter.before < FirstQualifying)

\* a qualifying message was collected before any component interaction
MessageFirst ==
    QualifyingIdx # {} /\ (inter.state = "none" \/ FirstQualifying <= inter.before)

\* C6: a combined wait that resolved to a matched value or to an interaction
\* resolved to the one that was collected first: to the interaction if it was
\* collected before every qualifying message, to the value of the first
\* qualifying message if that was collected before the interaction.
C6_FirstCollectedWins ==
    (mode = "double" /\ resolvedBy \in {"match", "interaction"}) =>
        /\ InteractionFirst => result = Interaction
        /\ MessageFirst => result = Func(msgs[FirstQualifying].content)

\* C7: once a combined wait has resolved, both collectors have ended: no
\* message collected after the resolution is deleted or passed to the
\* extractor, and no interaction is collected after the resolution.
C7_ResolvedEndsBothCollectors ==
    mode = "double" =>
        /\ result # Pending =>
              msgCollector # "active" /\ interactionCollector # "active"
        /\ \A k \in 1..Len(msgs) :
              msgs[k].late => ~msgs[k].deleteCalled /\ ~msgs[k].funcApplied
        /\ ~inter.late

\* C8: when initSendCollectorMessage yields null, each wait that sends a
\* message (text-only, owned component, combined) has returned null without
\* starting to wait: no collector exists and nothing was collected.
C8_NoBotMessageNoWait ==
    (mode \in {"normal", "owned", "double"} /\ pc # "init" /\ botMsg = Null) =>
        /\ result = Null
        /\ msgCollector = "none"
        /\ interactionCollector = "none"
        /\ msgs = <<>>

\* C9: when the await of the component fails or times out in the silent or
\* owned component wait, the operation returns null (no exception reaches
\* the caller), and the owned wait configured to delete its message has
\* requested the deletion.
C9_AwaitFailureYieldsNull ==
    (mode \in {"ephemeral", "owned"} /\ pc = "done" /\ inter.state = "none"
        /\ resolvedBy # "nostart") =>
        /\ result = Null
        /\ (mode = "owned" /\ options.deleteBaseMsgAfterComplete) => botDeleteCalls = 1

\* C10: in the text-only wait, when the extractor settles for a collected
\* message: if it yielded a defined value the collector is stopped and a
\* pending wait resolves with exactly that value; if it yielded undefined the
\* wait and the collector are left as they are.
C10_DefinedValueResolves ==
    [][ mode = "normal" =>
          \A k \in 1..Len(msgs) :
              (msgs[k].pc = "func" /\ msgs'[k].pc = "done") =>
                  IF Func(msgs[k].content) # "UNDEFINED"
                  THEN /\ result = Pending => result' = Func(msgs[k].content)
                       /\ msgCollector' = "ended"
                  ELSE UNCHANGED <<result, msgCollector>> ]_vars

\* C17: a combined wait whose collectors were started has settled its
\* promise, with a value, an interaction or null, at the latest when both
\* collectors have ended and the handlers they started have run to their
\* end, whatever the external calls of the handlers did (a failed
\* deferUpdate included).
C17_CombinedWaitSettles ==
    (/\ mode = "double"
     /\ msgCollector = "ended" /\ interactionCollector = "ended"
     /\ \A k \in 1..Len(msgs) : msgs[k].pc \notin {"delete", "func"}
     /\ inter.state # "defer")
        => result \notin {Pending, Exception}

\* C18: in the text-only wait with deleteBaseMsgAfterComplete and a
\* deletable bot message, botMsg.delete() is called at most once, and it has
\* been called by the time the wait has resolved by the cancel token, by a
\* match or by the timeout.
C18_BotMessageDeletedAtCompletion ==
    (/\ mode = "normal"
     /\ options.deleteBaseMsgAfterComplete
     /\ botMsg # Null /\ botDeletable)
        => /\ botDeleteCalls <= 1
           /\ resolvedBy \in {"cancel", "match", "time"} => botDeleteCalls = 1

\* C19: once a text-only wait has resolved (cancel token, match or timeout)
\* its message collector is not active, and no message collected after the
\* resolution had delete() called on it or was passed to the extractor.
C19_ResolvedCollectorInactive ==
    mode = "normal" =>
        /\ result # Pending => msgCollector # "active"
        /\ \A k \in 1..Len(msgs) :
              msgs[k].late => ~msgs[k].deleteCalled /\ ~msgs[k].funcApplied

\* C20: in the owned component wait, once the bot message was obtained,
\* nothing is done to it before the operation completes, and at completion
\* (by an interaction or by a timeout) exactly one decision is applied:
\* delete() if deleteBaseMsgAfterComplete; otherwise edit() clearing the
\* components if clearInteractionsAfterComplete and the message is editable;
\* otherwise neither.  delete() and edit() are never both called.
C20_OwnedCleanupDecision ==
    (mode = "owned" /\ botMsg # Null) =>
        IF pc # "done"
        THEN botDeleteCalls = 0 /\ botEditCalls = 0
        ELSE IF options.deleteBaseMsgAfterComplete
        THEN botDeleteCalls = 1 /\ botEditCalls = 0
        ELSE IF options.clearInteractionsAfterComplete /\ botEditable
        THEN botDeleteCalls = 0 /\ botEditCalls = 1
        ELSE botDeleteCalls = 0 /\ botEditCalls = 0

\* C20 witness: an owned wait that timed out with clearing requested on a
\* message that is not editable completed and left the message untouched.
C20_Witness ==
    /\ mode = "owned" /\ pc = "done" /\ botMsg # Null
    /\ inter.state = "none"
    /\ ~options.deleteBaseMsgAfterComplete
    /\ options.clearInteractionsAfterComplete
    /\ ~botEditable
    /\ botDeleteCalls = 0 /\ botEditCalls = 0


(***************************************************************************)
(*                     getActionRowsFromComponents                         *)
(***************************************************************************)
\* const MAX_ACTION_ROWS: number = 5;
MAX_ACTION_ROWS == 5

\* BaseMessageComponent.type
ComponentTypes == {"SELECT_MENU", "BUTTON", "ACTION_ROW"}

\* n components of one type, numbered in input order
ComponentsOf(type, n) == [i \in 1..n |-> [type |-> type, id |-> i]]

\* the two lists merged by taking one component of each in turn
RECURSIVE Interleave(_, _)
Interleave(a, b) ==
    IF a = <<>> THEN b
    ELSE IF b = <<>> THEN a
    ELSE <<Head(a), Head(b)>> \o Interleave(Tail(a), Tail(b))

\* the arguments of the call: n select menus, m buttons and k components of
\* another type, in one of three arrangements
ComponentLists ==
    { IF order = "selectsFirst"
      THEN ComponentsOf("SELECT_MENU", n) \o ComponentsOf("ACTION_ROW", k)
             \o ComponentsOf("BUTTON", m)
      ELSE IF order = "buttonsFirst"
      THEN ComponentsOf("BUTTON", m) \o ComponentsOf("ACTION_ROW", k)
             \o ComponentsOf("SELECT_MENU", n)
      ELSE Interleave(ComponentsOf("ACTION_ROW", k),
                      Interleave(ComponentsOf("BUTTON", m),
                                 ComponentsOf("SELECT_MENU", n))) :
        n \in 0..MaxSelects, m \in 0..MaxButtons, k \in 0..1,
        order \in {"selectsFirst", "buttonsFirst", "interleaved"} }

Min(a, b) == IF a < b THEN a ELSE b

\* options.filter(x => x.type === type)
FilterType(comps, type) == SelectSeq(comps, LAMBDA x : x.type = type)

\* for (let i = 0; i < Math.min(selectMenus.length, MAX_ACTION_ROWS); i++)
\*     rows.push(new MessageActionRow().addComponents(selectMenus[i]));
RECURSIVE SelectMenuRows(_, _, _)
SelectMenuRows(selectMenus, i, acc) ==
    IF i < Min(Len(selectMenus), MAX_ACTION_ROWS)
    THEN SelectMenuRows(selectMenus, i + 1, Append(acc, <<selectMenus[i + 1]>>))
    ELSE acc

\* for (let j = 0; j < 5 && i + j < buttons.length; j++)
\*     actionRow.addComponents(buttons[i + j]);
RECURSIVE ButtonRowFromStart(_, _, _, _)
ButtonRowFromStart(buttons, i, j, actionRow) ==
    IF j < 5 /\ i + j < Len(buttons)
    THEN ButtonRowFromStart(buttons, i, j + 1, Append(actionRow, buttons[j + 1]))
    ELSE actionRow

RECURSIVE ButtonRow(_, _, _, _)
ButtonRow(buttons, i, j, actionRow) ==
    IF j < 5 /\ i + j < Len(buttons)
    THEN ButtonRow(buttons, i, j + 1, Append(actionRow, buttons[i + j + 1]))
    ELSE actionRow

\* Math.min(buttons.length, 5 * (MAX_ACTION_ROWS - rowsUsed))
ButtonLimitAllRows(buttons, rowsUsed) == Min(Len(buttons), 5 * MAX_ACTION_ROWS)
ButtonLimit(buttons, rowsUsed) ==
    Min(Len(buttons), 5 * (MAX_ACTION_ROWS - rowsUsed))

\* for (let i = 0; i < Math.min(...); i += 5) { ...; rows.push(actionRow); }
RECURSIVE ButtonRows(_, _, _, _)
ButtonRows(buttons, i, rowsUsed, acc) ==
    IF i < ButtonLimit(buttons, rowsUsed)
    THEN ButtonRows(buttons, i + 5, rowsUsed,
                    Append(acc, ButtonRow(buttons, i, 0, <<>>)))
    ELSE acc

GetActionRowsFromComponents(comps) ==
    LET selectMenus == FilterType(comps, "SELECT_MENU")
        selectRows  == SelectMenuRows(selectMenus, 0, <<>>)
        rowsUsed    == Len(selectRows)
        buttons     == FilterType(comps, "BUTTON")
    IN ButtonRows(buttons, 0, rowsUsed, selectRows)

\* the call of getActionRowsFromComponents(components)
PackRows ==
    /\ rowsPc = "init"
    /\ rows' = GetActionRowsFromComponents(components)
    /\ rowsPc' = "done"
    /\ UNCHANGED components
    /\ UNCHANGED <<helpVars, parseVars>>
    /\ UNCHANGED dispatchVars
    /\ UNCHANGED collectorVars
    /\ UNCHANGED botVars

InitRows ==
    /\ components \in ComponentLists
    /\ rows = <<>>
    /\ rowsPc = "init"
    /\ HelpIdle
    /\ ParseIdle
    /\ DispatchIdle
    /\ CollectorIdle

NextRows == PackRows

SpecRows == InitRows /\ [][NextRows]_vars

\* the components of the list that have the type
CountType(list, type) == Len(FilterType(list, type))

\* every component of the row has the type
RowOf(row, type) == \A j \in DOMAIN row : row[j].type = type

\* C16: for every list of components the call returns (no error) at most
\* MAX_ACTION_ROWS rows; every row is either a select-menu row holding
\* exactly one select menu or a button row holding between 1 and 5 buttons;
\* every placed component is a component of the input, and no component of
\* another type is placed.
C16_RowPackingLimits ==
    rowsPc = "done" =>
      /\ Len(rows) <= 5
      /\ \A i \in DOMAIN rows :
           \/ RowOf(rows[i], "SELECT_MENU") /\ Len(rows[i]) = 1
           \/ RowOf(rows[i], "BUTTON") /\ Len(rows[i]) \in 1..5
      /\ \A i \in DOMAIN rows : \A j \in DOMAIN rows[i] :
           \E k \in DOMAIN components : components[k] = rows[i][j]

\* C16 witness: the call returned for a list with more select menus than
\* rows, with buttons and with a component of another type; components were
\* omitted.
C16_Witness ==
    /\ rowsPc = "done"
    /\ CountType(components, "SELECT_MENU") > 5
    /\ CountType(components, "BUTTON") > 0
    /\ CountType(components, "ACTION_ROW") > 0
    /\ Len(rows) = 5

\* the smallest integer that is at least m / 5
CeilDiv5(m) == (m + 4) \div 5

\* the i-th component of the type in input order (ComponentLists numbers
\* the components of each type in input order)
Nth(type, i) == [type |-> type, id |-> i]

\* C22: with N select menus and M buttons in the list, the call returns
\* exactly min(N,5) + min(ceil(M/5), 5 - min(N,5)) rows: the first min(N,5)
\* select menus in input order, one per row, then the first
\* min(M, 5 * (5 - min(N,5))) buttons in input order, every button row but
\* possibly the last holding exactly 5; with N >= 5 no button is placed.
C22_RowPackingExact ==
    rowsPc = "done" =>
      LET N == CountType(components, "SELECT_MENU")
          M == CountType(components, "BUTTON")
          selRows == Min(N, 5)
          placed == Min(M, 5 * (5 - selRows))
          btnRows == Min(CeilDiv5(M), 5 - selRows)
      IN /\ Len(rows) = selRows + btnRows
         /\ \A i \in 1..selRows : rows[i] = << Nth("SELECT_MENU", i) >>
         /\ \A r \in 1..btnRows :
              /\ Len(rows[selRows + r]) =
                   IF r < btnRows THEN 5 ELSE placed - 5 * (btnRows - 1)
              /\ \A j \in 1..Len(rows[selRows + r]) :
                   rows[selRows + r][j] = Nth("BUTTON", 5 * (r - 1) + j)
         /\ N >= 5 =>
              \A i \in DOMAIN rows : \A j \in DOMAIN rows[i] :
                 rows[i][j].type # "BUTTON"

\* C22 witness: two select menus and twelve buttons were packed into five
\* rows, the last of them holding the two remaining buttons.
C22_Witness ==
    /\ rowsPc = "done"
    /\ CountType(components, "SELECT_MENU") = 2
    /\ CountType(components, "BUTTON") = 12
    /\ Len(rows) = 5
    /\ rows[5] = << Nth("BUTTON", 11), Nth("BUTTON", 12) >>


(***************************************************************************)
(*                               Help.run                                  *)
(***************************************************************************)
\* Bot.Commands: category -> the commands of the category, by botCommandName
Commands ==
    [General |-> << "help" >>, EnrollData |-> << "overallplot", "lookupcached" >>]

\* the names Bot.NameCommands.get finds
RegisteredNames ==
    UNION { { Commands[cat][i] : i \in DOMAIN Commands[cat] } : cat \in DOMAIN Commands }

\* the values of the optional argument "command": absent, a registered
\* name, an unknown name
HelpArgs == {Null, "lookupcached", "nosuchcmd"}

\* ToBoolean of an object: every object is truthy
ObjectToBoolean(obj) == TRUE

\* x => x.hasPermissionToRun(ctx.user, ctx.guild), as filter() reads it:
\* the callback yields the result object itself
HelpFilter(name) == ObjectToBoolean(canRunOf[name])

\* commands.filter(...).map(x => x.commandInfo.botCommandName)
HelpListed(commands) == SelectSeq(commands, HelpFilter)

\* Help.run: the help of one command when the argument names a registered
\* command, the command list otherwise
HelpRun ==
    /\ helpPc = "init"
    /\ IF Truthy(helpArg) /\ helpArg \in RegisteredNames
       THEN helpReply' = [kind |-> "commandHelp", list |-> <<>>]
       ELSE helpReply' =
              [kind |-> "commandList",
               list |-> [cat \in DOMAIN Commands |-> HelpListed(Commands[cat])]]
    /\ helpPc' = "done"
    /\ UNCHANGED <<helpArg, canRunOf>>
    /\ UNCHANGED <<rowsVars, parseVars>>
    /\ UNCHANGED dispatchVars
    /\ UNCHANGED collectorVars
    /\ UNCHANGED botVars

InitHelp ==
    /\ helpArg \in HelpArgs
    /\ canRunOf \in [RegisteredNames -> CanRunInfos]
    \* the dispatcher calls Help.run only under canRun
    /\ canRunOf["help"].canRun
    /\ helpReply = [kind |-> "none", list |-> <<>>]
    /\ helpPc = "init"
    /\ RowsIdle
    /\ ParseIdle
    /\ DispatchIdle
    /\ CollectorIdle

NextHelp == HelpRun

SpecHelp == InitHelp /\ [][NextHelp]_vars

\* C24: the command list Help.run replies with contains, in each category,
\* only commands whose permission check for the invoking user yields
\* canRun true.
C24_HelpListsOnlyPermitted ==
    (helpPc = "done" /\ helpReply.kind = "commandList") =>
        \A cat \in DOMAIN Commands :
            \A i \in DOMAIN helpReply.list[cat] :
                canRunOf[helpReply.list[cat][i]].canRun


(***************************************************************************)
(*                         parseCourseSubjCode                             *)
(*                                                                         *)
(* Strings are sequences of characters.                                    *)
(***************************************************************************)
\* the characters of the model: a lower-case and an upper-case letter, the
\* space, a digit, and a white-space character that is not the space
Chars == {"a", "A", " ", "1", "\t"}

\* the strings of at most n characters
StringsUpTo(n) == UNION { [1..k -> Chars] : k \in 0..n }

\* /^\d+$/.test(ch) for a single character
IsDigit(ch) == ch \in {"0", "1", "2", "3", "4", "5", "6", "7", "8", "9"}

\* String.prototype.toUpperCase
CharToUpperCase(ch) == IF ch = "a" THEN "A" ELSE ch
StringToUpperCase(str) == [i \in DOMAIN str |-> CharToUpperCase(str[i])]

\* the characters String.prototype.trim removes
WhiteSpace == {" ", "\t"}

\* String.prototype.trim
RECURSIVE TrimStart(_)
TrimStart(str) ==
    IF str # <<>> /\ Head(str) \in WhiteSpace THEN TrimStart(Tail(str)) ELSE str

RECURSIVE TrimEnd(_)
TrimEnd(str) ==
    IF str # <<>> /\ str[Len(str)] \in WhiteSpace
    THEN TrimEnd(SubSeq(str, 1, Len(str) - 1))
    ELSE str

Trim(str) == TrimEnd(TrimStart(str))

\* the first loop: up to the first digit, the characters other than the
\* space are appended to s; yields i and s
RECURSIVE SubjLoopKeepsSpaces(_, _, _)
SubjLoopKeepsSpaces(str, i, s) ==
    IF i < Len(str)
    THEN IF IsDigit(str[i + 1]) THEN [i |-> i, s |-> s]
         ELSE SubjLoopKeepsSpaces(str, i + 1, Append(s, str[i + 1]))
    ELSE [i |-> i, s |-> s]

RECURSIVE SubjLoop(_, _, _)
SubjLoop(str, i, s) ==
    IF i < Len(str)
    THEN IF IsDigit(str[i + 1]) THEN [i |-> i, s |-> s]
         ELSE IF str[i + 1] = " " THEN SubjLoop(str, i + 1, s)
         ELSE SubjLoop(str, i + 1, Append(s, str[i + 1]))
    ELSE [i |-> i, s |-> s]

\* the second loop: the rest of the string is appended
RECURSIVE RestLoop(_, _, _)
RestLoop(str, i, s) ==
    IF i < Len(str) THEN RestLoop(str, i + 1, Append(s, str[i + 1])) ELSE s

ParseCourseSubjCode(str) ==
    LET first == SubjLoop(str, 0, <<>>)
        s     == RestLoop(str, first.i, Append(first.s, " "))
    IN Trim(StringToUpperCase(s))

\* LookupCached.run: !(parsedCode.indexOf(" ") === -1)
LookupCachedAccepts(parsed) == \E i \in DOMAIN parsed : parsed[i] = " "

\* the call parseCourseSubjCode(code)
Parse ==
    /\ parsePc = "init"
    /\ parsedCode' = ParseCourseSubjCode(code)
    /\ parsePc' = "done"
    /\ UNCHANGED code
    /\ UNCHANGED <<rowsVars, helpVars>>
    /\ UNCHANGED dispatchVars
    /\ UNCHANGED collectorVars
    /\ UNCHANGED botVars

\* the result is parsed again: parseCourseSubjCode(parsedCode)
ParseAgain ==
    /\ parsePc = "done"
    /\ parsedCode' = ParseCourseSubjCode(parsedCode)
    /\ parsePc' = "again"
    /\ UNCHANGED code
    /\ UNCHANGED <<rowsVars, helpVars>>
    /\ UNCHANGED dispatchVars
    /\ UNCHANGED collectorVars
    /\ UNCHANGED botVars

InitParse ==
    /\ code \in StringsUpTo(MaxCodeLen)
    /\ parsedCode = <<>>
    /\ parsePc = "init"
    /\ RowsIdle
    /\ HelpIdle
    /\ DispatchIdle
    /\ CollectorIdle

NextParse ==
    \/ Parse
    \/ ParseAgain

SpecParse == InitParse /\ [][NextParse]_vars

\* the position of the first digit of the string (0: none)
FirstDigit(str) ==
    IF \E i \in DOMAIN str : IsDigit(str[i])
    THEN CHOOSE i \in DOMAIN str :
            IsDigit(str[i]) /\ \A j \in 1..(i - 1) : ~IsDigit(str[j])
    ELSE 0

\* the part before the first digit and the part from it on
SubjectOf(str) == SubSeq(str, 1, FirstDigit(str) - 1)
RemainderOf(str) == SubSeq(str, FirstDigit(str), Len(str))

\* the string is a non-empty subject of letters and spaces followed by a
\* part that starts with a digit
SubjectThenNumber(str) ==
    /\ FirstDigit(str) > 1
    /\ \A i \in DOMAIN SubjectOf(str) : SubjectOf(str)[i] \in {"a", "A", " "}

\* the subject upper-cased with its spaces removed, one space, the
\* remainder upper-cased and trimmed
Normalised(str) ==
    SelectSeq(StringToUpperCase(SubjectOf(str)), LAMBDA ch : ch # " ")
        \o << " " >> \o Trim(StringToUpperCase(RemainderOf(str)))

\* C25 (as stated): parsing the result again gives the same result, for
\* every string; and for every string made of a non-empty letters-and-spaces
\* subject followed by a part that starts with a digit the result is the
\* normalised form, which LookupCached's check for a space accepts.
C25_ParseIdempotentNormalising ==
    [][ /\ (parsePc = "done" /\ parsePc' = "again") => parsedCode' = parsedCode
        /\ (parsePc = "init" /\ parsePc' = "done" /\ SubjectThenNumber(code))
             => /\ parsedCode' = Normalised(code)
                /\ LookupCachedAccepts(parsedCode') ]_vars

\* C25 (amended): the same, for subjects that contain at least one letter.
C25_ParseIdempotentNormalisingLetters ==
    [][ /\ (parsePc = "done" /\ parsePc' = "again") => parsedCode' = parsedCode
        /\ (/\ parsePc = "init" /\ parsePc' = "done"
            /\ SubjectThenNumber(code)
            /\ \E i \in DOMAIN SubjectOf(code) : SubjectOf(code)[i] \in {"a", "A"})
             => /\ parsedCode' = Normalised(code)
                /\ LookupCachedAccepts(parsedCode') ]_vars

\* C25 witness: "a a1 " was parsed to "AA 1", and parsing that again gave
\* "AA 1".
C25_Witness ==
    /\ parsePc = "again"
    /\ code = << "a", " ", "a", "1", " " >>
    /\ parsedCode = << "A", "A", " ", "1" >>

=============================================================================
